---- MODULE Spec2Model ----
(***************************************************************************)
(* PondCast (src/app.py): the shared runtime state of the LAN file node    *)
(* -- server modes, peer registry, liveness sweep, bounded event log,      *)
(* privacy masking of the status view -- and its request handlers.         *)
(*                                                                         *)
(* Strings are sequences of one-character strings.  A CJK character of a   *)
(* message literal is written as its code point ("u4e0a"); a directory     *)
(* name or an address that no operation looks inside is one token.         *)
(* Python's None is the empty tuple and a present value v is <<v>>.        *)
(* Every handler is a function from the state (a record of the globals)    *)
(* to the state, and an action commits the result of one whole request:    *)
(* before_request hook, then the routed view function.                     *)
(***************************************************************************)
EXTENDS Integers, Sequences, FiniteSets, TLC

VARIABLES
    locked,            \* SERVER_STATE['locked']
    file_pool,         \* SERVER_STATE['file_pool']
    ACTIVE_PEERS,      \* dict ip -> peer data, in insertion order
    EVENT_LOG,         \* deque(maxlen=MAX_EVENTS), head first
    LAST_ONLINE_IPS,   \* snapshot of the live addresses of the last sweep
    files,             \* the regular files on disk: resolved path -> metadata
    dirs,              \* the directories on disk below the working directory
    now,               \* the wall clock, in seconds
    event_seq,         \* number of add_event calls so far (orders the ids)
    resp,              \* the response to the last request
    threads            \* the request threads that are inside a status poll

vars == <<locked, file_pool, ACTIVE_PEERS, EVENT_LOG, LAST_ONLINE_IPS, files, dirs, now,
          event_seq, resp, threads>>

----------------------------------------------------------------------------
(* Program constants *)

MAX_EVENTS == 50
PEER_TIMEOUT == 8
ACTION_GRACE == 3

(* Bounds of the model *)

MaxTime == 10       \* the clock stops here
MaxEvents == 3      \* no request is accepted once this many events were logged
MaxLogEvents == 52  \* the same, in the specification that fills the log
MaxRegistryEvents == 2  \* the same, in the specification of the registry

----------------------------------------------------------------------------
(* Addresses, clients, text *)

ADMIN_IP == "127.0.0.1"
PeerA == "10.0.0.2"
PeerB == "10.0.0.3"
PeerIPs == {PeerA, PeerB}
IPs == {ADMIN_IP} \cup PeerIPs

None == <<>>
Some(v) == <<v>>

Max(a, b) == IF a > b THEN a ELSE b

\* s[i..j], 1-based, empty when i > j
Slice(s, i, j) == IF i > j THEN <<>> ELSE SubSeq(s, i, j)

\* s.startswith(p)
StartsWith(s, p) == Len(p) <= Len(s) /\ SubSeq(s, 1, Len(p)) = p

\* p occurs in s at position i
OccursAt(s, p, i) == i + Len(p) - 1 <= Len(s) /\ SubSeq(s, i, i + Len(p) - 1) = p

\* p in s
Contains(s, p) == \E i \in 1..(Len(s) + 1) : OccursAt(s, p, i)

\* s.replace(old, new) for a non-empty old: every non-overlapping occurrence,
\* scanning left to right
RECURSIVE ReplaceFrom(_, _, _, _)
ReplaceFrom(s, old, new, i) ==
    IF i > Len(s) THEN <<>>
    ELSE IF OccursAt(s, old, i) THEN new \o ReplaceFrom(s, old, new, i + Len(old))
    ELSE <<s[i]>> \o ReplaceFrom(s, old, new, i + 1)

Replace(s, old, new) == ReplaceFrom(s, old, new, 1)

----------------------------------------------------------------------------
(* Pure helpers *)

\* str.rfind(c) + 1: the last position of character c in s, 0 when absent
RFind(s, c) ==
    LET hits == {i \in 1..Len(s) : s[i] = c}
    IN  IF hits = {} THEN 0 ELSE CHOOSE i \in hits : \A j \in hits : j <= i

\* os.path.splitext (posixpath): the extension starts at the last dot of the last
\* path component, unless that component has only dots before it
splitext(p) ==
    LET sepIndex == RFind(p, "/")
        dotIndex == RFind(p, ".")
    IN  IF dotIndex > sepIndex
           /\ \E k \in (sepIndex + 1)..(dotIndex - 1) : p[k] # "."
        THEN <<Slice(p, 1, dotIndex - 1), Slice(p, dotIndex, Len(p))>>
        ELSE <<p, <<>>>>

\* os.path.basename
basename(p) == Slice(p, RFind(p, "/") + 1, Len(p))

MASK == <<"*", "*", "*">>

\* the masking that keeps three characters of the name
get_masked_name_KeepsThree(filename) ==
    IF filename = <<>> THEN MASK
    ELSE LET name == splitext(filename)[1]
             ext == splitext(filename)[2]
         IN  IF Len(name) <= 3 THEN name \o MASK \o ext
             ELSE SubSeq(name, 1, 3) \o MASK \o ext

\* the except branch (line 133) is never taken: splitext and slicing of a str
\* do not raise
get_masked_name(filename) ==
    IF filename = <<>> THEN MASK
    ELSE LET name == splitext(filename)[1]
             ext == splitext(filename)[2]
         IN  IF Len(name) <= 2 THEN name \o MASK \o ext
             ELSE SubSeq(name, 1, 2) \o MASK \o ext

UpperCase == <<"A","B","C","D","E","F","G","H","I","J","K","L","M",
               "N","O","P","Q","R","S","T","U","V","W","X","Y","Z">>
LowerCase == <<"a","b","c","d","e","f","g","h","i","j","k","l","m",
               "n","o","p","q","r","s","t","u","v","w","x","y","z">>

\* str.lower(), one character
LowerChar(c) ==
    IF \E i \in 1..26 : UpperCase[i] = c
    THEN LowerCase[CHOOSE i \in 1..26 : UpperCase[i] = c]
    ELSE c

lower(s) == [i \in 1..Len(s) |-> LowerChar(s[i])]

get_device_type(user_agent) ==
    LET ua == lower(user_agent)
    IN  IF Contains(ua, <<"a","n","d","r","o","i","d">>)
           \/ Contains(ua, <<"i","p","h","o","n","e">>)
           \/ Contains(ua, <<"i","p","a","d">>)
           \/ Contains(ua, <<"m","o","b","i","l","e">>)
        THEN "mobile"
        ELSE "desktop"

is_local_admin(remote_addr) == remote_addr = ADMIN_IP \/ remote_addr = "localhost"

----------------------------------------------------------------------------
(* The globals as one record, and the functions that update them *)

State ==
    [locked |-> locked, file_pool |-> file_pool, ACTIVE_PEERS |-> ACTIVE_PEERS,
     EVENT_LOG |-> EVENT_LOG, LAST_ONLINE_IPS |-> LAST_ONLINE_IPS,
     files |-> files, dirs |-> dirs, now |-> now, event_seq |-> event_seq]

\* appendleft on a full deque that drops the new head's neighbour, not the tail
appendleft_DropsNewest(log, e) ==
    IF Len(log) >= MAX_EVENTS THEN <<e>> \o SubSeq(log, 2, MAX_EVENTS)
    ELSE <<e>> \o log

\* deque.appendleft on a deque(maxlen=MAX_EVENTS): a full deque drops its last item
appendleft(log, e) ==
    IF Len(log) >= MAX_EVENTS THEN <<e>> \o SubSeq(log, 1, MAX_EVENTS - 1)
    ELSE <<e>> \o log

\* The id is the microsecond clock: later calls get larger ids.  The formatted
\* 'time' of an event is display text that nothing reads, and is left out.
add_event(st, type, msg, ip, filename) ==
    [st EXCEPT !.EVENT_LOG = appendleft(@, [id |-> st.event_seq + 1, type |-> type,
                                             msg |-> msg, ip |-> ip, filename |-> filename]),
               !.event_seq = @ + 1]

PeerKeys(peers) == {peers[i].ip : i \in 1..Len(peers)}
PeerIndex(peers, ip) == CHOOSE i \in 1..Len(peers) : peers[i].ip = ip
Peer(peers, ip) == peers[PeerIndex(peers, ip)]

\* record_activity that refreshes last_seen only together with an action
record_activity_SeenOnlyWithAction(st, ip, action, device_type, user_agent) ==
    LET dt == IF device_type = None THEN get_device_type(user_agent) ELSE device_type[1]
        peers == st.ACTIVE_PEERS
    IN  IF ip \notin PeerKeys(peers)
        THEN [st EXCEPT !.ACTIVE_PEERS =
                 Append(@, [ip |-> ip, last_seen |-> st.now, action |-> "idle",
                            action_time |-> st.now, device_type |-> dt])]
        ELSE LET i == PeerIndex(peers, ip)
                 p2 == IF action # None
                       THEN [peers[i] EXCEPT !.last_seen = st.now, !.action = action[1],
                                             !.action_time = st.now + ACTION_GRACE]
                       ELSE peers[i]
                 p3 == [p2 EXCEPT !.device_type = dt]
             IN  [st EXCEPT !.ACTIVE_PEERS = [peers EXCEPT ![i] = p3]]

\* action and device_type are None or Some(value); user_agent is the client
\* string of the request being served
record_activity(st, ip, action, device_type, user_agent) ==
    LET dt == IF device_type = None THEN get_device_type(user_agent) ELSE device_type[1]
        peers == st.ACTIVE_PEERS
    IN  IF ip \notin PeerKeys(peers)
        THEN [st EXCEPT !.ACTIVE_PEERS =
                 Append(@, [ip |-> ip, last_seen |-> st.now, action |-> "idle",
                            action_time |-> st.now, device_type |-> dt])]
        ELSE LET i == PeerIndex(peers, ip)
                 p1 == [peers[i] EXCEPT !.last_seen = st.now]
                 p2 == IF action # None
                       THEN [p1 EXCEPT !.action = action[1],
                                       !.action_time = st.now + ACTION_GRACE]
                       ELSE p1
                 p3 == [p2 EXCEPT !.device_type = dt]
             IN  [st EXCEPT !.ACTIVE_PEERS = [peers EXCEPT ![i] = p3]]

MSG_LEAVE == <<"u5df2", "u79bb", "u7ebf">>
MSG_JOIN == <<"u52a0", "u5165", "u7f51", "u7edc">>
MSG_LOCK == <<"u670d", "u52a1", "u5668", "u9501", "u5b9a", "u72b6", "u6001",
              "u5df2", "u53d8", "u66f4">>
MSG_POOL == <<"u6587", "u4ef6", "u6c60", "u6a21", "u5f0f", "u5df2">>
MSG_POOL_ON == <<"u542f", "u7528">>
MSG_POOL_OFF == <<"u5173", "u95ed">>

\* one add_event(type, msg, ip) per address of the sequence ips, in order
RECURSIVE add_events(_, _, _, _)
add_events(st, type, msg, ips) ==
    IF ips = <<>> THEN st
    ELSE add_events(add_event(st, type, msg, ips[1], None), type, msg, Tail(ips))

\* the sweep that never resets an action
ExpireAction_NoReset(t, data) == data

\* line 160: an action past its expiry becomes idle
ExpireAction(t, data) ==
    IF data.action # "idle" /\ t > data.action_time
    THEN [data EXCEPT !.action = "idle"]
    ELSE data

\* line 161: the entry is stale
TimedOut(t, data) == t - data.last_seen > PEER_TIMEOUT

\* the addresses the loop of the sweep puts in current_ips
current_ips(st) ==
    {st.ACTIVE_PEERS[i].ip : i \in {j \in 1..Len(st.ACTIVE_PEERS) :
                                        ~TimedOut(st.now, st.ACTIVE_PEERS[j])}}

\* new_ips computed without the snapshot
new_ips_IgnoresSnapshot(st) == current_ips(st)

\* line 166
new_ips(st) == current_ips(st) \ st.LAST_ONLINE_IPS

\* the orders in which a Python set of addresses may be iterated
Orders(S) == {o \in [1..Cardinality(S) -> S] : \A x \in S : \E i \in DOMAIN o : o[i] = x}

\* the sweep that logs the leave of a stale peer but leaves its entry in the dict
check_peers_lifecycle_KeepsStale(st, join_order) ==
    LET peers == st.ACTIVE_PEERS
        to_remove == SelectSeq(peers, LAMBDA d : TimedOut(st.now, d))
        reset == [i \in 1..Len(peers) |-> ExpireAction(st.now, peers[i])]
        s1 == [st EXCEPT !.ACTIVE_PEERS = reset]
        s2 == add_events(s1, "leave", MSG_LEAVE,
                         [i \in 1..Len(to_remove) |-> to_remove[i].ip])
        joiners == SelectSeq(join_order, LAMBDA ip : ip # ADMIN_IP)
        s3 == add_events(s2, "join", MSG_JOIN, joiners)
    IN  [s3 EXCEPT !.LAST_ONLINE_IPS = current_ips(st)]

\* join_order is the order in which the set new_ips happens to be iterated
check_peers_lifecycle(st, join_order) ==
    LET peers == st.ACTIVE_PEERS
        to_remove == SelectSeq(peers, LAMBDA d : TimedOut(st.now, d))
        kept == SelectSeq(peers, LAMBDA d : ~TimedOut(st.now, d))
        reset == [i \in 1..Len(kept) |-> ExpireAction(st.now, kept[i])]
        s1 == [st EXCEPT !.ACTIVE_PEERS = reset]
        s2 == add_events(s1, "leave", MSG_LEAVE,
                         [i \in 1..Len(to_remove) |-> to_remove[i].ip])
        joiners == SelectSeq(join_order, LAMBDA ip : ip # ADMIN_IP)
        s3 == add_events(s2, "join", MSG_JOIN, joiners)
    IN  [s3 EXCEPT !.LAST_ONLINE_IPS = current_ips(st)]

----------------------------------------------------------------------------
(* Paths and the disk.  A path is a string; a resolved path is the sequence *)
(* of its components from the working directory (from ROOT when absolute,   *)
(* with leading ".." components when it leaves the working directory).      *)

RELEASE_DIR == <<"release">>
RECEIVED_DIR == <<"received">>
RELEASE_PREFIX == <<"__release__", "/">>
ROOT == <<"/">>
DOTDOT == <<".", ".">>

\* the address as the name of a directory
IpDir(ip) == <<ip>>

\* os.path.join(a, b)
join(a, b) ==
    IF StartsWith(b, <<"/">>) THEN b
    ELSE IF a = <<>> \/ a[Len(a)] = "/" THEN a \o b
    ELSE a \o <<"/">> \o b

\* s.split('/')
RECURSIVE SplitFrom(_, _, _)
SplitFrom(s, i, cur) ==
    IF i > Len(s) THEN <<cur>>
    ELSE IF s[i] = "/" THEN <<cur>> \o SplitFrom(s, i + 1, <<>>)
    ELSE SplitFrom(s, i + 1, Append(cur, s[i]))

split(s) == SplitFrom(s, 1, <<>>)

\* s.split('/', 1)
split1(s) ==
    LET hits == {i \in 1..Len(s) : s[i] = "/"}
    IN  IF hits = {} THEN <<s>>
        ELSE LET k == CHOOSE i \in hits : \A j \in hits : i <= j
             IN  <<Slice(s, 1, k - 1), Slice(s, k + 1, Len(s))>>

IsDir(st, rp) ==
    \/ rp \in st.dirs
    \/ rp = <<>>
    \/ rp = <<ROOT>>
    \/ \A i \in 1..Len(rp) : rp[i] = DOTDOT

IsFile(st, rp) == rp \in DOMAIN st.files

Parent(rp) ==
    IF rp = <<>> \/ rp[Len(rp)] = DOTDOT THEN Append(rp, DOTDOT)
    ELSE IF rp = <<ROOT>> THEN rp
    ELSE SubSeq(rp, 1, Len(rp) - 1)

\* Path resolution as the kernel does it: component by component, every
\* component but the last must be a directory.  ok is FALSE when it is not.
RECURSIVE WalkFrom(_, _, _)
WalkFrom(st, cur, segs) ==
    IF segs = <<>> THEN [ok |-> TRUE, path |-> cur]
    ELSE IF ~IsDir(st, cur) THEN [ok |-> FALSE, path |-> cur]
    ELSE IF segs[1] = <<>> \/ segs[1] = <<".">> THEN WalkFrom(st, cur, Tail(segs))
    ELSE IF segs[1] = DOTDOT THEN WalkFrom(st, Parent(cur), Tail(segs))
    ELSE WalkFrom(st, Append(cur, segs[1]), Tail(segs))

Walk(st, p) == WalkFrom(st, IF StartsWith(p, <<"/">>) THEN <<ROOT>> ELSE <<>>, split(p))

\* os.path.exists, os.path.isfile, os.path.isdir
exists(st, p) == Walk(st, p).ok /\ (IsFile(st, Walk(st, p).path) \/ IsDir(st, Walk(st, p).path))
isfile(st, p) == Walk(st, p).ok /\ IsFile(st, Walk(st, p).path)
isdir(st, p) == Walk(st, p).ok /\ IsDir(st, Walk(st, p).path)

\* os.listdir of a resolved directory: the names of its entries
listdir(st, rd) ==
    {rp[Len(rp)] : rp \in {q \in (DOMAIN st.files) \cup st.dirs :
                                Len(q) = Len(rd) + 1 /\ SubSeq(q, 1, Len(rd)) = rd}}

\* os.makedirs of a path that does not exist: the directory and its missing parents
makedirs(st, p) ==
    LET rp == Walk(st, p).path
    IN  [st EXCEPT !.dirs = @ \cup {SubSeq(rp, 1, k) : k \in 1..Len(rp)}]

\* FileStorage.save: open(path, "wb") and write.  The open fails when the parent
\* is no directory or the path is one; by is the address the content came from.
CanSave(st, p) ==
    LET w == Walk(st, p)
    IN  w.ok /\ ~IsDir(st, w.path) /\ IsDir(st, Parent(w.path))

save(st, p, by) ==
    LET rp == Walk(st, p).path
        meta == [by |-> by, mtime |-> st.now]
    IN  [st EXCEPT !.files = [q \in (DOMAIN @) \cup {rp} |-> IF q = rp THEN meta ELSE @[q]]]

\* os.remove of an existing regular file
remove(st, p) ==
    LET rp == Walk(st, p).path
    IN  [st EXCEPT !.files = [q \in (DOMAIN @) \ {rp} |-> @[q]]]

\* posixpath.normpath, as components: "." and empty components dropped, ".."
\* cancelling the component before it
RECURSIVE NormFrom(_, _, _)
NormFrom(abs, acc, segs) ==
    IF segs = <<>> THEN acc
    ELSE IF segs[1] = <<>> \/ segs[1] = <<".">> THEN NormFrom(abs, acc, Tail(segs))
    ELSE IF segs[1] = DOTDOT
         THEN IF acc # <<>> /\ acc[Len(acc)] # DOTDOT
              THEN NormFrom(abs, SubSeq(acc, 1, Len(acc) - 1), Tail(segs))
              ELSE IF abs THEN NormFrom(abs, acc, Tail(segs))
              ELSE NormFrom(abs, Append(acc, DOTDOT), Tail(segs))
    ELSE NormFrom(abs, Append(acc, segs[1]), Tail(segs))

\* werkzeug.security.safe_join(directory, path): None when the normalised path is
\* absolute or starts with "..", else the components below directory
safe_join(path) ==
    LET abs == StartsWith(path, <<"/">>)
        n == NormFrom(abs, <<>>, split(path))
    IN  IF abs \/ (n # <<>> /\ n[1] = DOTDOT) THEN None ELSE Some(n)

\* flask.send_from_directory(directory, path): the resolved file it sends, or None
\* for its 404 (unsafe path, or no regular file there)
send_from_directory(st, directory, path) ==
    LET j == safe_join(path)
        rp == IF j = None THEN <<>> ELSE WalkFrom(st, Walk(st, directory).path, j[1])
    IN  IF j # None /\ rp.ok /\ IsFile(st, rp.path) THEN Some(rp.path) ELSE None

----------------------------------------------------------------------------
(* Requests and the before_request hook *)

\* the URL rule of each view function, up to its variable part
RoutePath(endpoint) ==
    CASE endpoint = "index" -> <<"/">>
      [] endpoint = "static" -> <<"/", "static", "/">>
      [] endpoint = "api_status" -> <<"/", "api", "/", "status">>
      [] endpoint = "api_toggle_lock" -> <<"/", "api", "/", "toggle_lock">>
      [] endpoint = "api_toggle_pool" -> <<"/", "api", "/", "toggle_pool">>
      [] endpoint = "list_release_files" -> <<"/", "api", "/", "files", "/", "release">>
      [] endpoint = "list_received_files" -> <<"/", "api", "/", "files", "/", "received">>
      [] endpoint = "delete_file" -> <<"/", "api", "/", "file", "/", "delete">>
      [] endpoint = "download_file" -> <<"/", "download", "/">>
      [] endpoint = "upload_file" -> <<"/", "upload">>

Request(ip, ua, endpoint) ==
    [remote_addr |-> ip, user_agent |-> ua, endpoint |-> endpoint, path |-> RoutePath(endpoint)]

\* the gate without the admin exemption
MaintenanceDenied_NoAdminExemption(st, req) ==
    st.locked /\ req.endpoint # "static"

\* line 175-176: the request is aborted with 403 "Maintenance Mode"
MaintenanceDenied(st, req) ==
    st.locked /\ ~is_local_admin(req.remote_addr) /\ req.endpoint # "static"

\* line 178-179: the hook records the sender's activity
TracksActivity(req) ==
    /\ req.remote_addr # ADMIN_IP /\ req.remote_addr # "localhost"
    /\ \/ StartsWith(req.path, <<"/", "api", "/">>)
       \/ StartsWith(req.path, <<"/", "upload">>)
       \/ StartsWith(req.path, <<"/", "download">>)

\* the state the view function starts from, when the request is not aborted
global_intercept(st, req) ==
    IF TracksActivity(req)
    THEN record_activity(st, req.remote_addr, None, None, req.user_agent)
    ELSE st

Out(st, status, sent) == [st |-> st, status |-> status, sent |-> sent]

----------------------------------------------------------------------------
(* View functions: the state after the call, the HTTP status, the file sent *)

\* index, static files, list_release_files, list_received_files: views that
\* read and change nothing (their bodies are StatusView and ReceivedView below)
read_only_view(st) == Out(st, 200, None)

api_status(st, join_order) == Out(check_peers_lifecycle(st, join_order), 200, None)

\* toggle_lock without the admin check
api_toggle_lock_NoAdminCheck(st, req) ==
    Out(add_event([st EXCEPT !.locked = ~@], "system", MSG_LOCK, "Server", None), 200, None)

\* toggle_lock that sets the lock instead of flipping it
api_toggle_lock_SetOnly(st, req) ==
    IF ~is_local_admin(req.remote_addr) THEN Out(st, 403, None)
    ELSE Out(add_event([st EXCEPT !.locked = TRUE], "system", MSG_LOCK, "Server", None),
             200, None)

api_toggle_lock(st, req) ==
    IF ~is_local_admin(req.remote_addr) THEN Out(st, 403, None)
    ELSE Out(add_event([st EXCEPT !.locked = ~@], "system", MSG_LOCK, "Server", None),
             200, None)

api_toggle_pool(st, req) ==
    IF ~is_local_admin(req.remote_addr) THEN Out(st, 403, None)
    ELSE LET s1 == [st EXCEPT !.file_pool = ~@]
             state_str == IF s1.file_pool THEN MSG_POOL_ON ELSE MSG_POOL_OFF
         IN  Out(add_event(s1, "pool_toggle", MSG_POOL \o state_str, "Server", None),
                 200, None)

MSG_DOWNLOAD == <<"u4e0b", "u8f7d", "u4e86", " ">>
MSG_UPLOAD == <<"u4e0a", "u4f20", "u4e86", " ">>
MSG_DELETE == <<"u5220", "u9664", "u4e86", " ">>
MSG_UNKNOWN_FILE == <<"u672a", "u77e5", "u6587", "u4ef6">>

\* the actor of an event of a request
Actor(ip) == IF ip # ADMIN_IP THEN ip ELSE "Server"

download_file(st, req, filename) ==
    IF Contains(filename, DOTDOT) \/ StartsWith(filename, <<"/">>) THEN Out(st, 404, None)
    ELSE
    LET sender_ip == req.remote_addr
        s1 == IF sender_ip # ADMIN_IP
              THEN record_activity(st, sender_ip, Some("download"), None, req.user_agent)
              ELSE st
        parts0 == split(filename)
        display_name == parts0[Len(parts0)]
        s2 == add_event(s1, "download", MSG_DOWNLOAD \o display_name, Actor(sender_ip),
                        Some(display_name))
        Send(directory, path) ==
            LET f == send_from_directory(s2, directory, path)
            IN  IF f = None THEN Out(s2, 404, None) ELSE Out(s2, 200, f)
        parts == split1(filename)
    IN  IF StartsWith(filename, RELEASE_PREFIX)
        THEN Send(RELEASE_DIR, Replace(filename, RELEASE_PREFIX, <<>>))
        ELSE IF exists(s2, join(RELEASE_DIR, filename))
        THEN Send(RELEASE_DIR, filename)
        ELSE IF (is_local_admin(sender_ip) \/ s2.file_pool)
                /\ Len(parts) = 2
                /\ exists(s2, join(RECEIVED_DIR, parts[1]))
        THEN Send(join(RECEIVED_DIR, parts[1]), parts[2])
        ELSE Out(s2, 404, None)

\* strftime("%H%M%S_"): the digits of the clock are one token
TimePrefix(t) == <<ToString(t), "_">>

\* lines 320-327: the loop over the uploaded files.  raised: file.save failed,
\* which ends the request with the files written so far left on disk.
RECURSIVE upload_loop(_, _, _, _, _, _)
upload_loop(st, save_dir, by, names, saved_count, last_file) ==
    IF names = <<>>
    THEN [st |-> st, saved_count |-> saved_count, last_file |-> last_file, raised |-> FALSE]
    ELSE IF names[1] = <<>>
    THEN upload_loop(st, save_dir, by, Tail(names), saved_count, last_file)
    ELSE LET filename == names[1]
             p0 == join(save_dir, filename)
             file_path == IF exists(st, p0)
                          THEN join(save_dir, TimePrefix(st.now) \o filename)
                          ELSE p0
         IN  IF ~CanSave(st, file_path)
             THEN [st |-> st, saved_count |-> saved_count, last_file |-> last_file,
                   raised |-> TRUE]
             ELSE upload_loop(save(st, file_path, by), save_dir, by, Tail(names),
                              saved_count + 1, filename)

\* the count of a message, as its decimal digits
Digits(n) == <<ToString(n)>>
MSG_FILES == <<" ", "u4e2a", "u6587", "u4ef6">>

\* os.makedirs fails when a component of the path is a regular file
CanMakedirs(st, p) == Walk(st, p).ok /\ ~IsFile(st, Walk(st, p).path)

upload_file(st, req, uploaded_files) ==
    LET sender_ip == req.remote_addr
        is_admin == is_local_admin(sender_ip)
        s1 == IF ~is_admin
              THEN record_activity(st, sender_ip, Some("upload"), None, req.user_agent)
              ELSE st
        save_dir == IF is_admin THEN RELEASE_DIR ELSE join(RECEIVED_DIR, IpDir(sender_ip))
    IN  IF ~exists(s1, save_dir) /\ ~CanMakedirs(s1, save_dir) THEN Out(s1, 500, None)
        ELSE
        LET s2 == IF ~exists(s1, save_dir) THEN makedirs(s1, save_dir) ELSE s1
            r == upload_loop(s2, save_dir, Actor(sender_ip), uploaded_files, 0, <<>>)
        IN  IF r.raised THEN Out(r.st, 500, None)
            ELSE IF r.saved_count > 0
            THEN LET msg == IF r.saved_count = 1 THEN MSG_UPLOAD \o r.last_file
                            ELSE MSG_UPLOAD \o Digits(r.saved_count) \o MSG_FILES
                     recorded_filename == IF r.saved_count = 1 THEN Some(r.last_file)
                                          ELSE None
                 IN  Out(add_event(r.st, "upload", msg, Actor(sender_ip), recorded_filename),
                         200, None)
            ELSE Out(r.st, 200, None)

\* os.path.dirname
dirname(p) == Slice(p, 1, RFind(p, "/") - 1)

\* target_type and target_path are None or Some(value), from the JSON body
delete_file(st, req, target_type, target_path) ==
    IF ~is_local_admin(req.remote_addr) THEN Out(st, 403, None)
    ELSE
    LET is_release == \/ target_type = Some("release")
                      \/ (target_path # None /\ target_path # Some(<<>>)
                          /\ StartsWith(target_path[1], RELEASE_PREFIX))
        clean_name == IF target_path # None /\ target_path # Some(<<>>)
                      THEN Replace(target_path[1], RELEASE_PREFIX, <<>>)
                      ELSE <<>>
        file_name_only == IF is_release THEN clean_name
                          ELSE IF target_path # None /\ target_path # Some(<<>>)
                          THEN basename(target_path[1])
                          ELSE MSG_UNKNOWN_FILE
    IN  IF ~is_release /\ target_type = Some("received") /\ target_path = None
        THEN Out(st, 500, None)               \* os.path.join(RECEIVED_DIR, None) raises
        ELSE
        LET full_path == IF is_release THEN Some(join(RELEASE_DIR, clean_name))
                         ELSE IF target_type = Some("received")
                         THEN Some(join(RECEIVED_DIR, target_path[1]))
                         ELSE None
        IN  IF full_path = None \/ ~exists(st, full_path[1]) THEN Out(st, 404, None)
            ELSE IF ~isfile(st, full_path[1]) THEN Out(st, 500, None)   \* os.remove raises
            ELSE
            LET s1 == remove(st, full_path[1])
                parent == Walk(s1, dirname(full_path[1])).path
                empty == target_type = Some("received") /\ listdir(s1, parent) = {}
            IN  IF empty /\ parent \notin s1.dirs THEN Out(s1, 500, None)  \* os.rmdir raises
                ELSE LET s2 == IF empty THEN [s1 EXCEPT !.dirs = @ \ {parent}] ELSE s1
                     IN  Out(add_event(s2, "delete", MSG_DELETE \o file_name_only,
                                       "Server", Some(file_name_only)), 200, None)

----------------------------------------------------------------------------
(* What the read-only views return *)

\* api_status, lines 195-198: one entry per peer, in dict order, after the
\* server's own entry when the pool is on
StatusTopology(st) ==
    (IF st.file_pool
     THEN <<[ip |-> "Server", status |-> "idle", type |-> "server", device_type |-> "desktop"]>>
     ELSE <<>>)
    \o [i \in 1..Len(st.ACTIVE_PEERS) |->
           [ip |-> st.ACTIVE_PEERS[i].ip, status |-> st.ACTIVE_PEERS[i].action,
            type |-> "client", device_type |-> st.ACTIVE_PEERS[i].device_type]]

\* truthiness of event.get('filename')
HasFilename(event) ==
    "filename" \in DOMAIN event /\ event.filename # None /\ event.filename # Some(<<>>)

\* the masking that leaves the filename field in the copy
MaskEvent_KeepsFilename(event, sender_ip, should_mask) ==
    IF should_mask /\ event.ip # sender_ip /\ HasFilename(event)
    THEN LET original_name == event.filename[1]
             masked_name == get_masked_name(original_name)
         IN  [event EXCEPT !.msg = Replace(event.msg, original_name, masked_name)]
    ELSE event

\* lines 204-209, for one event: the copy the viewer gets
MaskEvent(event, sender_ip, should_mask) ==
    IF should_mask /\ event.ip # sender_ip /\ HasFilename(event)
    THEN LET original_name == event.filename[1]
             masked_name == get_masked_name(original_name)
         IN  [id |-> event.id, type |-> event.type, ip |-> event.ip,
              msg |-> Replace(event.msg, original_name, masked_name)]
    ELSE event

\* the filter that masks while the pool is on, not off
filter_events_PoolInverted(events, sender_ip, is_admin, pool) ==
    LET should_mask == (~is_admin) /\ pool
    IN  [i \in 1..Len(events) |-> MaskEvent(events[i], sender_ip, should_mask)]

\* the filter that masks for every non-admin viewer, whatever the pool mode
filter_events_IgnoresPool(events, sender_ip, is_admin, pool) ==
    LET should_mask == ~is_admin
    IN  [i \in 1..Len(events) |-> MaskEvent(events[i], sender_ip, should_mask)]

\* lines 200-210: client_safe_events
filter_events(events, sender_ip, is_admin, pool) ==
    LET should_mask == (~is_admin) /\ (~pool)
    IN  [i \in 1..Len(events) |-> MaskEvent(events[i], sender_ip, should_mask)]

StatusEvents(st, sender_ip) ==
    filter_events(st.EVENT_LOG, sender_ip, is_local_admin(sender_ip), st.file_pool)

\* the regular files directly in the resolved directory rd, as resolved paths
FilesIn(st, rd) == {Append(rd, n) : n \in {m \in listdir(st, rd) : IsFile(st, Append(rd, m))}}

\* list.sort(key=upload_time, reverse=True) of the entries of a set of files;
\* path is the file an entry stands for (its size is not modelled)
SortedEntries(st, S) ==
    LET entry(rp) == [name |-> rp[Len(rp)], upload_time |-> st.files[rp].mtime, path |-> rp]
        E == {entry(rp) : rp \in S}
    IN  CHOOSE o \in Orders(E) :
            \A i, j \in DOMAIN o : i < j => o[i].upload_time >= o[j].upload_time

SERVER_KEY == <<"Server">>

\* the listing that shows the peers' folders only while the pool is on
ReceivedView_PeersOnlyInPool(st, sender_ip) ==
    LET is_admin == is_local_admin(sender_ip)
        file_pool_active == st.file_pool
        received == Walk(st, RECEIVED_DIR).path
    IN  IF is_admin \/ file_pool_active
        THEN LET folders == IF file_pool_active /\ exists(st, RECEIVED_DIR)
                            THEN {f \in listdir(st, received) :
                                     /\ IsDir(st, Append(received, f))
                                     /\ FilesIn(st, Append(received, f)) # {}}
                            ELSE {}
                 keys == (IF file_pool_active THEN {SERVER_KEY} ELSE {}) \cup folders
                 group(k) ==
                     IF k \in folders THEN SortedEntries(st, FilesIn(st, Append(received, k)))
                     ELSE IF exists(st, RELEASE_DIR)
                     THEN SortedEntries(st, FilesIn(st, Walk(st, RELEASE_DIR).path))
                     ELSE <<>>
             IN  [role |-> IF file_pool_active /\ ~is_admin THEN "pool_view" ELSE "admin",
                  data |-> [k \in keys |-> group(k)],
                  my_ip |-> sender_ip, pool_enabled |-> file_pool_active]
        ELSE LET my_dir == join(RECEIVED_DIR, IpDir(sender_ip))
                 my_files == IF exists(st, my_dir)
                             THEN SortedEntries(st, FilesIn(st, Walk(st, my_dir).path))
                             ELSE <<>>
             IN  [role |-> "client", data |-> my_files, pool_enabled |-> FALSE]

\* list_received_files, lines 240-271: the JSON body
ReceivedView(st, sender_ip) ==
    LET is_admin == is_local_admin(sender_ip)
        file_pool_active == st.file_pool
        received == Walk(st, RECEIVED_DIR).path
    IN  IF is_admin \/ file_pool_active
        THEN LET folders == IF exists(st, RECEIVED_DIR)
                            THEN {f \in listdir(st, received) :
                                     /\ IsDir(st, Append(received, f))
                                     /\ FilesIn(st, Append(received, f)) # {}}
                            ELSE {}
                 keys == (IF file_pool_active THEN {SERVER_KEY} ELSE {}) \cup folders
                 group(k) ==
                     IF k \in folders THEN SortedEntries(st, FilesIn(st, Append(received, k)))
                     ELSE IF exists(st, RELEASE_DIR)
                     THEN SortedEntries(st, FilesIn(st, Walk(st, RELEASE_DIR).path))
                     ELSE <<>>
             IN  [role |-> IF file_pool_active /\ ~is_admin THEN "pool_view" ELSE "admin",
                  data |-> [k \in keys |-> group(k)],
                  my_ip |-> sender_ip, pool_enabled |-> file_pool_active]
        ELSE LET my_dir == join(RECEIVED_DIR, IpDir(sender_ip))
                 my_files == IF exists(st, my_dir)
                             THEN SortedEntries(st, FilesIn(st, Walk(st, my_dir).path))
                             ELSE <<>>
             IN  [role |-> "client", data |-> my_files, pool_enabled |-> FALSE]

----------------------------------------------------------------------------
(* Actions: one whole request each *)

Commit(st) ==
    /\ locked' = st.locked
    /\ file_pool' = st.file_pool
    /\ ACTIVE_PEERS' = st.ACTIVE_PEERS
    /\ EVENT_LOG' = st.EVENT_LOG
    /\ LAST_ONLINE_IPS' = st.LAST_ONLINE_IPS
    /\ files' = st.files
    /\ dirs' = st.dirs
    /\ now' = st.now
    /\ event_seq' = st.event_seq

Respond(req, status, error, sent) ==
    resp' = [remote_addr |-> req.remote_addr, endpoint |-> req.endpoint,
             status |-> status, error |-> error, sent |-> sent]

ErrorOf(status) ==
    CASE status = 403 -> "Permission denied"
      [] status = 404 -> "Not Found"
      [] status = 500 -> "Internal Server Error"
      [] OTHER -> ""

\* the state on which the view function of the request runs
Hooked(req) == global_intercept(State, req)

\* Flask runs before_request first; abort(403) there ends the request before
\* the view function is called.  view is the result of the view function on
\* Hooked(req).
Serve(req, view) ==
    IF MaintenanceDenied(State, req)
    THEN /\ Respond(req, 403, "Maintenance Mode", None)
         /\ UNCHANGED <<locked, file_pool, ACTIVE_PEERS, EVENT_LOG, LAST_ONLINE_IPS,
                        files, dirs, now, event_seq, threads>>
    ELSE \E o \in {view} :
             /\ Commit(o.st)
             /\ Respond(req, o.status, ErrorOf(o.status), o.sent)
             /\ UNCHANGED threads

GET_index(ip, ua) ==
    LET req == Request(ip, ua, "index")
    IN  Serve(req, read_only_view(Hooked(req)))

GET_static(ip, ua) ==
    LET req == Request(ip, ua, "static")
    IN  Serve(req, read_only_view(Hooked(req)))

GET_list_release_files(ip, ua) ==
    LET req == Request(ip, ua, "list_release_files")
    IN  Serve(req, read_only_view(Hooked(req)))

GET_list_received_files(ip, ua) ==
    LET req == Request(ip, ua, "list_received_files")
    IN  Serve(req, read_only_view(Hooked(req)))

GET_api_status(ip, ua) ==
    LET req == Request(ip, ua, "api_status")
    IN  \E join_order \in Orders(new_ips(Hooked(req))) :
            Serve(req, api_status(Hooked(req), join_order))

POST_api_toggle_lock(ip, ua) ==
    LET req == Request(ip, ua, "api_toggle_lock")
    IN  Serve(req, api_toggle_lock(Hooked(req), req))

POST_api_toggle_pool(ip, ua) ==
    LET req == Request(ip, ua, "api_toggle_pool")
    IN  Serve(req, api_toggle_pool(Hooked(req), req))

POST_delete_file(ip, ua, target_type, target_path) ==
    LET req == Request(ip, ua, "delete_file")
    IN  Serve(req, delete_file(Hooked(req), req, target_type, target_path))

GET_download_file(ip, ua, filename) ==
    LET req == Request(ip, ua, "download_file")
    IN  Serve(req, download_file(Hooked(req), req, filename))

POST_upload_file(ip, ua, uploaded_files) ==
    LET req == Request(ip, ua, "upload_file")
    IN  Serve(req, upload_file(Hooked(req), req, uploaded_files))

\* the clock advances by d seconds between two requests
Tick(d) ==
    /\ now + d <= MaxTime
    /\ now' = now + d
    /\ UNCHANGED <<locked, file_pool, ACTIVE_PEERS, EVENT_LOG, LAST_ONLINE_IPS,
                   files, dirs, event_seq, resp, threads>>

----------------------------------------------------------------------------
(* Initial state: the module's globals (lines 67-77) after ensure_directories *)

\* app.run serves each request in a thread of its own (werkzeug's threaded
\* server); two of them are followed through a status poll
Threads == {"T1", "T2"}

\* the position of a thread in api_status and the locals of its sweep
IdleThread ==
    [pc |-> "idle", remote_addr |-> "", to_remove |-> <<>>, current_ips |-> {},
     new_ips |-> {}]

Init ==
    /\ locked = FALSE
    /\ file_pool = FALSE
    /\ ACTIVE_PEERS = <<>>
    /\ EVENT_LOG = <<>>
    /\ LAST_ONLINE_IPS = {}
    /\ files = <<>>
    /\ dirs = {<<RELEASE_DIR>>, <<RECEIVED_DIR>>}
    /\ now = 0
    /\ event_seq = 0
    /\ resp = [remote_addr |-> "", endpoint |-> "", status |-> 0, error |-> "", sent |-> None]
    /\ threads = [t \in Threads |-> IdleThread]

(* Inputs *)

UA_DESKTOP == <<"F", "i", "r", "e", "f", "o", "x">>
UA_MOBILE == <<"i", "P", "h", "o", "n", "e">>

F_REPORT == <<"r", "e", "p", "o", "r", "t", ".", "p", "d", "f">>
F_A == <<"a">>
F_X == <<"x">>

----------------------------------------------------------------------------
(* Modes and the authorization gate: every route, from the admin and a peer *)

GateIPs == {ADMIN_IP, PeerA}

\* requests are accepted while fewer than bound events were logged
Within(bound) == event_seq < bound

NextGate ==
    \/ \E ip \in GateIPs : Within(MaxEvents) /\ GET_index(ip, UA_DESKTOP)
    \/ \E ip \in GateIPs : Within(MaxEvents) /\ GET_static(ip, UA_DESKTOP)
    \/ \E ip \in GateIPs : Within(MaxEvents) /\ GET_list_release_files(ip, UA_DESKTOP)
    \/ \E ip \in GateIPs : Within(MaxEvents) /\ GET_list_received_files(ip, UA_DESKTOP)
    \/ \E ip \in GateIPs : Within(MaxEvents) /\ GET_api_status(ip, UA_DESKTOP)
    \/ \E ip \in GateIPs : Within(MaxEvents) /\ POST_api_toggle_lock(ip, UA_DESKTOP)
    \/ \E ip \in GateIPs : Within(MaxEvents) /\ POST_api_toggle_pool(ip, UA_DESKTOP)
    \/ \E ip \in GateIPs :
          Within(MaxEvents) /\ POST_delete_file(ip, UA_DESKTOP, Some("release"), Some(F_A))
    \/ \E ip \in GateIPs : Within(MaxEvents) /\ GET_download_file(ip, UA_DESKTOP, F_A)
    \/ \E ip \in GateIPs : Within(MaxEvents) /\ POST_upload_file(ip, UA_DESKTOP, <<F_A>>)

SpecGate == Init /\ [][NextGate]_vars

----------------------------------------------------------------------------
(* The event log filled past its capacity: lock toggles and status polls *)

NextLog ==
    \/ \E ip \in GateIPs : Within(MaxLogEvents) /\ POST_api_toggle_lock(ip, UA_DESKTOP)
    \/ \E ip \in GateIPs : Within(MaxLogEvents) /\ GET_api_status(ip, UA_DESKTOP)

SpecLog == Init /\ [][NextLog]_vars

Min(a, b) == IF a < b THEN a ELSE b

\* C1: the log never holds more than MAX_EVENTS events and is ordered newest
\* first; a step that logs k events puts them at the head, newest first, in
\* front of the old log cut to its MAX_EVENTS - k newest events; so after
\* MAX_EVENTS + 1 insertions the first event is gone and the last is the head.
C1_LogBoundedNewestFirstEvictsOldest ==
    [][/\ Len(EVENT_LOG') <= MAX_EVENTS
       /\ \A i \in 1..(Len(EVENT_LOG') - 1) : EVENT_LOG'[i].id > EVENT_LOG'[i + 1].id
       /\ LET k == event_seq' - event_seq
          IN  k > 0 =>
                /\ \A i \in 1..k : EVENT_LOG'[i].id = event_seq' - i + 1
                /\ SubSeq(EVENT_LOG', k + 1, Len(EVENT_LOG'))
                     = SubSeq(EVENT_LOG, 1, Min(Len(EVENT_LOG), MAX_EVENTS - k))
       /\ event_seq' = MAX_EVENTS + 1 =>
                /\ EVENT_LOG'[1].id = MAX_EVENTS + 1
                /\ \A i \in 1..Len(EVENT_LOG') : EVENT_LOG'[i].id # 1]_vars

\* one event more than the capacity was inserted
C1_Witness ==
    /\ event_seq = MAX_EVENTS + 1
    /\ Len(EVENT_LOG) = MAX_EVENTS
    /\ EVENT_LOG[1].id = MAX_EVENTS + 1
    /\ EVENT_LOG[MAX_EVENTS].id = 2

----------------------------------------------------------------------------
(* The privacy filter: file events of the admin and two peers, seen by each *)

UploadLists == {<<F_REPORT>>, <<F_A>>, <<F_A, F_X>>}

NextPrivacy ==
    \/ \E ip \in IPs : Within(MaxEvents) /\ GET_api_status(ip, UA_DESKTOP)
    \/ \E ip \in IPs : Within(MaxEvents) /\ POST_api_toggle_pool(ip, UA_DESKTOP)
    \/ \E ip \in IPs, fs \in UploadLists :
          Within(MaxEvents) /\ POST_upload_file(ip, UA_DESKTOP, fs)
    \/ \E ip \in IPs : Within(MaxEvents) /\ GET_download_file(ip, UA_DESKTOP, F_A)
    \/ \E ip \in IPs :
          Within(MaxEvents) /\ POST_delete_file(ip, UA_DESKTOP, Some("release"), Some(F_A))

SpecPrivacy == Init /\ [][NextPrivacy]_vars

\* C3: with the pool off, the status view of a non-admin viewer carries, for no
\* event with a filename whose actor is not the viewer, that filename in the
\* filename field.
C3_NoRawFilenameForOthers ==
    ~file_pool =>
       \A viewer \in PeerIPs : \A i \in 1..Len(EVENT_LOG) :
          LET event == EVENT_LOG[i]
              seen == StatusEvents(State, viewer)[i]
          IN  (HasFilename(event) /\ event.ip # viewer)
                 => ("filename" \notin DOMAIN seen \/ seen.filename # event.filename)

\* PeerB just polled the status while the log holds a file event of PeerA
C3_Witness ==
    /\ ~file_pool /\ resp.endpoint = "api_status" /\ resp.remote_addr = PeerB
    /\ resp.status = 200
    /\ \E i \in 1..Len(EVENT_LOG) : HasFilename(EVENT_LOG[i]) /\ EVENT_LOG[i].ip = PeerA

\* C4: filtering the status view again, for the same viewer and the same pool
\* mode, returns it unchanged.
C4_FilterIdempotent ==
    \A viewer \in IPs :
       LET once == StatusEvents(State, viewer)
       IN  filter_events(once, viewer, is_local_admin(viewer), file_pool) = once

\* PeerB just polled the status while the log holds, masked for it, an event
\* whose masked name contains the name itself
C4_Witness ==
    /\ ~file_pool /\ resp.endpoint = "api_status" /\ resp.remote_addr = PeerB
    /\ \E i \in 1..Len(EVENT_LOG) :
          /\ HasFilename(EVENT_LOG[i]) /\ EVENT_LOG[i].ip # PeerB
          /\ Contains(get_masked_name(EVENT_LOG[i].filename[1]), EVENT_LOG[i].filename[1])
          /\ StatusEvents(State, PeerB)[i] # EVENT_LOG[i]

\* C5: the admin, and every viewer while the pool is on, gets every event as it
\* is stored; every viewer gets its own events as they are stored.
C5_MaskOnlyNonAdminPoolOff ==
    \A viewer \in IPs :
       /\ (is_local_admin(viewer) \/ file_pool) => StatusEvents(State, viewer) = EVENT_LOG
       /\ \A i \in 1..Len(EVENT_LOG) :
             EVENT_LOG[i].ip = viewer => StatusEvents(State, viewer)[i] = EVENT_LOG[i]

\* the pool is on and PeerB just polled a log with a file event of PeerA
C5_Witness ==
    /\ file_pool /\ resp.endpoint = "api_status" /\ resp.remote_addr = PeerB
    /\ resp.status = 200
    /\ \E i \in 1..Len(EVENT_LOG) : HasFilename(EVENT_LOG[i]) /\ EVENT_LOG[i].ip = PeerA

----------------------------------------------------------------------------
(* Presence: the clock, status polls (the sweeps), uploads and downloads *)

NextTime ==
    \/ Tick(1)
    \/ \E ip \in IPs : Within(MaxEvents) /\ GET_api_status(ip, UA_DESKTOP)
    \/ Within(MaxEvents) /\ GET_index(PeerA, UA_DESKTOP)
    \/ Within(MaxEvents) /\ POST_upload_file(PeerA, UA_DESKTOP, <<F_A>>)
    \/ Within(MaxEvents) /\ GET_download_file(PeerB, UA_DESKTOP, F_A)

SpecTime == Init /\ [][NextTime]_vars

\* the step serves a status poll (a request leaves the clock alone)
SweepStep == now' = now /\ resp'.endpoint = "api_status" /\ resp'.status = 200

\* the events the step logged of the given type and address
Logged(type, ip) ==
    {i \in 1..Len(EVENT_LOG') :
        EVENT_LOG'[i].id > event_seq /\ EVENT_LOG'[i].type = type /\ EVENT_LOG'[i].ip = ip}

\* the registered peer was last seen more than PEER_TIMEOUT ago.  last_seen is
\* only ever set to the time of a request of that peer, so this holds of every
\* registered peer that has sent no request for more than PEER_TIMEOUT.
Stale(P) ==
    P \in PeerKeys(ACTIVE_PEERS) /\ now - Peer(ACTIVE_PEERS, P).last_seen > PEER_TIMEOUT

\* C7: a sweep run for another sender removes every registered peer last seen
\* more than PEER_TIMEOUT ago and logs exactly one leave event for it; no other
\* step logs a leave event for a peer (so none is logged again for a removed
\* peer until it is registered again and is stale again).
C7_SweepRemovesStalePeerOnce ==
    [][\A P \in PeerIPs :
          IF SweepStep /\ Stale(P) /\ resp'.remote_addr # P
          THEN /\ P \notin PeerKeys(ACTIVE_PEERS')
               /\ Cardinality(Logged("leave", P)) = 1
          ELSE Logged("leave", P) = {}]_vars

\* PeerB's poll swept PeerA away, and a later poll found nothing more to log
C7_Witness ==
    /\ resp.endpoint = "api_status" /\ resp.remote_addr = PeerB
    /\ PeerA \notin PeerKeys(ACTIVE_PEERS)
    /\ Len(EVENT_LOG) >= 2
    /\ EVENT_LOG[1].type = "join" /\ EVENT_LOG[1].ip = PeerB
    /\ EVENT_LOG[2].type = "leave" /\ EVENT_LOG[2].ip = PeerA
    /\ now > Peer(ACTIVE_PEERS, PeerB).last_seen

\* C8: after a sweep no registered peer, and so no entry of the topology of the
\* status response, is uploading or downloading with an expiry before the time
\* of the sweep.
C8_NoExpiredActionAfterSweep ==
    [][SweepStep =>
          /\ \A i \in 1..Len(ACTIVE_PEERS') :
                ACTIVE_PEERS'[i].action # "idle" => ~(now' > ACTIVE_PEERS'[i].action_time)
          /\ \A i \in 1..Len(StatusTopology(State')) :
                LET entry == StatusTopology(State')[i]
                IN  (entry.type = "client" /\ entry.status # "idle")
                       => ~(now' > Peer(ACTIVE_PEERS', entry.ip).action_time)]_vars

\* a sweep has reset the action of a peer that is still registered: an idle
\* entry keeps the expiry that its upload or download set
C8_Witness ==
    /\ resp.endpoint = "api_status" /\ resp.status = 200
    /\ \E i \in 1..Len(ACTIVE_PEERS) :
          /\ ACTIVE_PEERS[i].action = "idle"
          /\ ACTIVE_PEERS[i].action_time = ACTIVE_PEERS[i].last_seen + ACTION_GRACE
          /\ now > ACTIVE_PEERS[i].action_time

----------------------------------------------------------------------------
(* Files: uploads under plain and under relative names, listings, downloads *)

F_UP_RELEASE == <<".", ".", "/", ".", ".", "/", "release", "/", "x">>
F_UP_PEER_A == <<".", ".", "/", PeerA, "/", "x">>
F_IN_RELEASE == <<"__release__", "/", "x">>
F_OF_PEER_B == <<PeerB, "/", "x">>

FileUploads == {<<F_X>>, <<F_UP_RELEASE>>, <<F_UP_PEER_A>>}
FileDownloads == {F_X, F_IN_RELEASE, F_OF_PEER_B}

NextFiles ==
    \/ \E ip \in IPs, fs \in FileUploads :
          Within(MaxEvents) /\ POST_upload_file(ip, UA_DESKTOP, fs)
    \/ \E ip \in IPs, f \in FileDownloads :
          Within(MaxEvents) /\ GET_download_file(ip, UA_DESKTOP, f)
    \/ \E ip \in IPs : Within(MaxEvents) /\ GET_list_received_files(ip, UA_DESKTOP)
    \/ \E ip \in IPs : Within(MaxEvents) /\ POST_api_toggle_pool(ip, UA_DESKTOP)
    \/ \E ip \in IPs :
          Within(MaxEvents) /\ POST_delete_file(ip, UA_DESKTOP, Some("received"),
                                                Some(F_OF_PEER_B))

SpecFiles == Init /\ [][NextFiles]_vars

\* the file was uploaded by a peer other than A
OfOtherPeer(st, rp, A) == st.files[rp].by \in PeerIPs \ {A}

\* C10: while the pool is off, the listing of a non-admin address A shows no
\* file that another peer uploaded, and a download answered to A sends no file
\* that another peer uploaded.
C10_PeerObtainsNoFileOfAnotherPeer ==
    [][\A A \in PeerIPs :
          /\ ~file_pool' =>
                \A i \in 1..Len(ReceivedView(State', A).data) :
                   ~OfOtherPeer(State', ReceivedView(State', A).data[i].path, A)
          /\ (~file_pool /\ now' = now /\ resp'.endpoint = "download_file"
              /\ resp'.remote_addr = A /\ resp'.sent # None)
                => ~OfOtherPeer(State', resp'.sent[1], A)]_vars

Endpoints ==
    {"index", "static", "api_status", "api_toggle_lock", "api_toggle_pool",
     "list_release_files", "list_received_files", "delete_file", "download_file",
     "upload_file"}

\* C2: the request of a step is answered 403 "Maintenance Mode" exactly when the
\* server was locked, the sender is not the admin and the route is not the static
\* one; such a step changes no global and nothing on disk (the admin's request in
\* the same state is therefore never answered so, and reaches its view function).
C2_GateDeniesIffLockedNonAdminNonStatic ==
    [][/\ (resp'.error = "Maintenance Mode")
           <=> (locked /\ ~is_local_admin(resp'.remote_addr) /\ resp'.endpoint # "static")
       /\ (resp'.error = "Maintenance Mode")
           => UNCHANGED <<locked, file_pool, ACTIVE_PEERS, EVENT_LOG, LAST_ONLINE_IPS,
                          files, dirs, event_seq>>]_vars

\* a peer was just denied by the gate while an earlier request of it had
\* registered it
C2_Witness ==
    /\ locked /\ resp.error = "Maintenance Mode" /\ resp.remote_addr = PeerA
    /\ resp.endpoint = "upload_file" /\ PeerA \in PeerKeys(ACTIVE_PEERS)

\* C6: a toggle request of a non-admin sender is answered 403 and changes neither
\* mode nor the event log; a step that changes a mode is a toggle request of the
\* admin.
C6_TogglesAdminOnly ==
    [][/\ (resp'.endpoint \in {"api_toggle_lock", "api_toggle_pool"}
           /\ ~is_local_admin(resp'.remote_addr))
          => (resp'.status = 403 /\ UNCHANGED <<locked, file_pool, EVENT_LOG, event_seq>>)
       /\ (locked' # locked \/ file_pool' # file_pool)
          => (is_local_admin(resp'.remote_addr)
              /\ resp'.endpoint \in {"api_toggle_lock", "api_toggle_pool"}
              /\ resp'.status = 200)]_vars

\* an unlocked server refused a peer's toggle in the view function itself
C6_Witness ==
    /\ ~locked /\ resp.endpoint = "api_toggle_lock" /\ resp.remote_addr = PeerA
    /\ resp.status = 403 /\ resp.error = "Permission denied"

\* the number of system events in a log
RECURSIVE CountType(_, _)
CountType(log, type) ==
    IF log = <<>> THEN 0
    ELSE (IF log[1].type = type THEN 1 ELSE 0) + CountType(Tail(log), type)

\* C9: a toggle_lock answered 200 flips locked and puts exactly one event, a
\* system event, at the head of the log; and (no event having been evicted)
\* after an even number of system events the gate denies no request at all, as
\* before the first toggle, and after an odd number it is locked.
C9_ToggleLockFlipsAndRestores ==
    [][/\ (resp'.endpoint = "api_toggle_lock" /\ resp'.status = 200)
          => /\ locked' = ~locked
             /\ event_seq' = event_seq + 1
             /\ Len(EVENT_LOG') = Len(EVENT_LOG) + 1
             /\ EVENT_LOG'[1].type = "system"
             /\ SubSeq(EVENT_LOG', 2, Len(EVENT_LOG')) = EVENT_LOG
       /\ event_seq' < MAX_EVENTS
          => /\ (CountType(EVENT_LOG', "system") % 2 = 1) <=> locked'
             /\ (CountType(EVENT_LOG', "system") % 2 = 0)
                   => \A ip \in IPs, e \in Endpoints :
                         ~MaintenanceDenied(State', Request(ip, UA_DESKTOP, e))]_vars

\* locked went false -> true -> false: two system events, and the peer is served
C9_Witness ==
    /\ ~locked /\ CountType(EVENT_LOG, "system") = 2
    /\ resp.remote_addr = PeerA /\ resp.status = 200

----------------------------------------------------------------------------
(* The admin's listing *)

F_OF_PEER_A == <<PeerA, "/", "a">>

\* uploads at different times, as the groups are sorted by upload time; the
\* listing is served whatever the number of events logged
NextListing ==
    \/ Tick(ACTION_GRACE)
    \/ Within(MaxEvents) /\ POST_upload_file(ADMIN_IP, UA_DESKTOP, <<F_X>>)
    \/ Within(MaxEvents) /\ POST_upload_file(PeerA, UA_DESKTOP, <<F_A>>)
    \/ Within(MaxEvents) /\ POST_upload_file(PeerB, UA_DESKTOP, <<F_UP_PEER_A>>)
    \/ Within(MaxEvents) /\ POST_api_toggle_pool(ADMIN_IP, UA_DESKTOP)
    \/ Within(MaxEvents)
          /\ POST_delete_file(ADMIN_IP, UA_DESKTOP, Some("received"), Some(F_OF_PEER_A))
    \/ GET_list_received_files(ADMIN_IP, UA_DESKTOP)

SpecListing == Init /\ [][NextListing]_vars

\* the file rp is an entry of the group of key k of the listing v
InGroup(v, k, rp) ==
    k \in DOMAIN v.data /\ \E i \in DOMAIN v.data[k] : v.data[k][i].path = rp

\* the regular files directly in RELEASE_DIR, and directly in a folder of RECEIVED_DIR
Published == {rp \in DOMAIN files : Len(rp) = 2 /\ rp[1] = RELEASE_DIR}
Uploaded == {rp \in DOMAIN files : Len(rp) = 3 /\ rp[1] = RECEIVED_DIR}

----------------------------------------------------------------------------
(* Events and the outcome of the request that logged them *)

\* C12: a step that logs an upload, download or delete event is a request that
\* succeeded (answered 200); a download answered 404 or 403 logs no download
\* event.
C12_FileEventsOnlyOnSuccess ==
    [][\A i \in 1..Len(EVENT_LOG') :
          (EVENT_LOG'[i].id > event_seq
           /\ EVENT_LOG'[i].type \in {"upload", "download", "delete"})
             => resp'.status = 200]_vars

----------------------------------------------------------------------------
(* The directory of a request and the files it touches *)

\* the resolved path rp lies below the resolved directory rd
Under(rp, rd) == Len(rp) > Len(rd) /\ SubSeq(rp, 1, Len(rd)) = rd

\* line 317: the directory an upload of the address is saved to
SaveDirOf(ip) == IF is_local_admin(ip) THEN <<RELEASE_DIR>> ELSE <<RECEIVED_DIR, IpDir(ip)>>

\* the files the step created, removed or rewrote
Touched ==
    {rp \in (DOMAIN files) \cup (DOMAIN files') :
        rp \notin DOMAIN files \/ rp \notin DOMAIN files' \/ files[rp] # files'[rp]}

\* C13: an upload writes no file outside the sender's directory, a delete removes
\* no file outside the release and received directories, and a download sends no
\* file outside them (a name with a parent-directory segment or an absolute
\* prefix being rejected before the disk is touched).
C13_NoFileOutsideRequestDirectory ==
    [][/\ resp'.endpoint = "upload_file"
          => \A rp \in Touched : Under(rp, SaveDirOf(resp'.remote_addr))
       /\ resp'.endpoint = "delete_file"
          => \A rp \in Touched : Under(rp, <<RELEASE_DIR>>) \/ Under(rp, <<RECEIVED_DIR>>)
       /\ (resp'.endpoint = "download_file" /\ resp'.sent # None)
          => Under(resp'.sent[1], <<RELEASE_DIR>>) \/ Under(resp'.sent[1], <<RECEIVED_DIR>>)
      ]_vars

----------------------------------------------------------------------------
(* Status polls in concurrent threads.  No lock guards the globals, and a     *)
(* thread can be preempted between any two statements: api_status is cut into *)
(* steps after the hook and after lines 162, 165, 166 and 168.                *)

SetThread(t, rec) == threads' = [threads EXCEPT ![t] = rec]

\* lines 173-180: the hook of a status poll, up to the call of the view function
api_status_enter(t, ip, ua) ==
    LET req == Request(ip, ua, "api_status")
    IN  /\ threads[t].pc = "idle"
        /\ IF MaintenanceDenied(State, req)
           THEN /\ Respond(req, 403, "Maintenance Mode", None)
                /\ UNCHANGED <<locked, file_pool, ACTIVE_PEERS, EVENT_LOG, LAST_ONLINE_IPS,
                               files, dirs, now, event_seq, threads>>
           ELSE /\ Commit(Hooked(req))
                /\ SetThread(t, [IdleThread EXCEPT !.pc = "scan", !.remote_addr = ip])
                /\ UNCHANGED resp

\* lines 156-162: the loop over the registry
check_peers_lifecycle_scan(t) ==
    /\ threads[t].pc = "scan"
    /\ LET stale == SelectSeq(ACTIVE_PEERS, LAMBDA d : TimedOut(now, d))
       IN  /\ ACTIVE_PEERS' = [i \in 1..Len(ACTIVE_PEERS) |-> ExpireAction(now, ACTIVE_PEERS[i])]
           /\ SetThread(t, [threads[t] EXCEPT !.pc = "remove",
                                              !.to_remove = [i \in 1..Len(stale) |-> stale[i].ip],
                                              !.current_ips = current_ips(State)])
    /\ UNCHANGED <<locked, file_pool, EVENT_LOG, LAST_ONLINE_IPS, files, dirs, now,
                   event_seq, resp>>

\* lines 163-165; del raises KeyError for an address another thread has removed
RECURSIVE remove_peers(_, _)
remove_peers(st, ips) ==
    IF ips = <<>> THEN [st |-> st, raised |-> FALSE]
    ELSE IF ips[1] \notin PeerKeys(st.ACTIVE_PEERS) THEN [st |-> st, raised |-> TRUE]
    ELSE remove_peers(
             add_event([st EXCEPT !.ACTIVE_PEERS = SelectSeq(@, LAMBDA d : d.ip # ips[1])],
                       "leave", MSG_LEAVE, ips[1], None),
             Tail(ips))

check_peers_lifecycle_remove(t) ==
    /\ threads[t].pc = "remove"
    /\ \E r \in {remove_peers(State, threads[t].to_remove)} :
          /\ Commit(r.st)
          /\ IF r.raised
             THEN /\ Respond(Request(threads[t].remote_addr, <<>>, "api_status"), 500,
                             ErrorOf(500), None)
                  /\ SetThread(t, IdleThread)
             ELSE /\ SetThread(t, [threads[t] EXCEPT !.pc = "diff"])
                  /\ UNCHANGED resp

\* line 166
check_peers_lifecycle_diff(t) ==
    /\ threads[t].pc = "diff"
    /\ SetThread(t, [threads[t] EXCEPT !.pc = "join",
                                       !.new_ips = threads[t].current_ips \ LAST_ONLINE_IPS])
    /\ UNCHANGED <<locked, file_pool, ACTIVE_PEERS, EVENT_LOG, LAST_ONLINE_IPS, files, dirs,
                   now, event_seq, resp>>

\* lines 167-168
check_peers_lifecycle_join(t) ==
    /\ threads[t].pc = "join"
    /\ \E join_order \in Orders(threads[t].new_ips) :
          Commit(add_events(State, "join", MSG_JOIN,
                            SelectSeq(join_order, LAMBDA ip : ip # ADMIN_IP)))
    /\ SetThread(t, [threads[t] EXCEPT !.pc = "snapshot"])
    /\ UNCHANGED resp

\* line 169, and the rest of api_status, which only reads
check_peers_lifecycle_snapshot(t) ==
    /\ threads[t].pc = "snapshot"
    /\ LAST_ONLINE_IPS' = threads[t].current_ips
    /\ Respond(Request(threads[t].remote_addr, <<>>, "api_status"), 200, "", None)
    /\ SetThread(t, IdleThread)
    /\ UNCHANGED <<locked, file_pool, ACTIVE_PEERS, EVENT_LOG, files, dirs, now, event_seq>>

NextRace ==
    \/ \E t \in Threads, ip \in PeerIPs :
          Within(MaxEvents) /\ api_status_enter(t, ip, UA_DESKTOP)
    \/ \E t \in Threads : check_peers_lifecycle_scan(t)
    \/ \E t \in Threads : check_peers_lifecycle_remove(t)
    \/ \E t \in Threads : check_peers_lifecycle_diff(t)
    \/ \E t \in Threads : check_peers_lifecycle_join(t)
    \/ \E t \in Threads : check_peers_lifecycle_snapshot(t)
    \/ Tick(PEER_TIMEOUT + 1)

SpecRace == Init /\ [][NextRace]_vars

\* C14: the log never holds two join events of an address without a leave event
\* of that address between them -- no two polls both log the join of one
\* absent-to-present transition.
C14_NoTwoJoinsForOneTransition ==
    \A i, j \in 1..Len(EVENT_LOG) :
       (i < j /\ EVENT_LOG[i].type = "join" /\ EVENT_LOG[j].type = "join"
        /\ EVENT_LOG[i].ip = EVENT_LOG[j].ip)
          => \E k \in (i + 1)..(j - 1) :
                EVENT_LOG[k].type = "leave" /\ EVENT_LOG[k].ip = EVENT_LOG[i].ip

----------------------------------------------------------------------------
(* The registry: requests to tracked and untracked paths, from two client   *)
(* strings, with the clock advancing in steps of the grace period            *)

UAs == {UA_DESKTOP, UA_MOBILE}

NextRegistry ==
    \/ Tick(ACTION_GRACE)
    \/ Within(MaxRegistryEvents) /\ GET_index(PeerA, UA_DESKTOP)
    \/ Within(MaxRegistryEvents) /\ GET_static(PeerA, UA_DESKTOP)
    \/ \E ip \in PeerIPs, ua \in UAs : Within(MaxRegistryEvents) /\ GET_list_received_files(ip, ua)
    \/ \E ip \in IPs : Within(MaxRegistryEvents) /\ GET_api_status(ip, UA_DESKTOP)
    \/ Within(MaxRegistryEvents) /\ POST_upload_file(PeerA, UA_MOBILE, <<F_A>>)
    \/ Within(MaxRegistryEvents) /\ POST_api_toggle_lock(ADMIN_IP, UA_DESKTOP)

SpecRegistry == Init /\ [][NextRegistry]_vars

\* the step served a request of a peer that the gate let through
PeerRequestServed ==
    now' = now /\ resp'.remote_addr \in PeerIPs /\ resp'.error # "Maintenance Mode"

\* the sender of the step's request is registered with last_seen the time of the request
SenderSeenNow ==
    /\ resp'.remote_addr \in PeerKeys(ACTIVE_PEERS')
    /\ Peer(ACTIVE_PEERS', resp'.remote_addr).last_seen = now'

\* C15 as stated: every request of a non-admin address that passes the gate,
\* whatever its path, leaves the address registered with last_seen the time of
\* the request.
C15_EveryPeerRequestRegisters ==
    [][PeerRequestServed => SenderSeenNow]_vars

\* the routes below /api/, /upload and /download
TrackedEndpoints == Endpoints \ {"index", "static"}

\* C15 amended: a request of a non-admin address that passes the gate leaves the
\* address registered with last_seen the time of the request when its path
\* starts with /api/, /upload or /download; a request to another path (the
\* index page, a static file) leaves the registry as it was.
C15_TrackedPeerRequestRegisters ==
    [][PeerRequestServed =>
          IF resp'.endpoint \in TrackedEndpoints THEN SenderSeenNow
          ELSE ACTIVE_PEERS' = ACTIVE_PEERS]_vars

\* a registered peer's later listing request refreshed its last_seen
C15_Witness ==
    /\ resp.endpoint = "list_received_files" /\ resp.remote_addr = PeerA /\ resp.status = 200
    /\ now > 0 /\ PeerA \in PeerKeys(ACTIVE_PEERS)
    /\ Peer(ACTIVE_PEERS, PeerA).last_seen = now
    /\ Peer(ACTIVE_PEERS, PeerA).action_time < now

\* C16: a sweep logs exactly one join event for every non-loopback address
\* that is registered after it and was not in the snapshot before it, logs no
\* join event for any other address, and leaves the snapshot equal to the set
\* of the addresses registered after it; no other step logs a join event or
\* changes the snapshot.
C16_SweepJoinsNewAddressesOnce ==
    [][IF SweepStep
       THEN /\ \A P \in IPs :
                  Cardinality(Logged("join", P))
                     = IF P # ADMIN_IP /\ P \in PeerKeys(ACTIVE_PEERS')
                          /\ P \notin LAST_ONLINE_IPS
                       THEN 1 ELSE 0
            /\ LAST_ONLINE_IPS' = PeerKeys(ACTIVE_PEERS')
       ELSE /\ \A P \in IPs : Logged("join", P) = {}
            /\ LAST_ONLINE_IPS' = LAST_ONLINE_IPS]_vars

\* after the admin's poll both peers are registered and in the snapshot, and
\* the log holds one join event of each and nothing else
C16_Witness ==
    /\ resp.endpoint = "api_status" /\ resp.status = 200 /\ resp.remote_addr = ADMIN_IP
    /\ LAST_ONLINE_IPS = PeerIPs /\ PeerKeys(ACTIVE_PEERS) = PeerIPs
    /\ Len(EVENT_LOG) = 2
    /\ EVENT_LOG[1].type = "join" /\ EVENT_LOG[2].type = "join"
    /\ EVENT_LOG[1].ip # EVENT_LOG[2].ip

----------------------------------------------------------------------------
(* Masked names: PeerA uploads under several names, PeerB polls the status *)

N_AB == <<"a", "b">>
N_ABC == <<"a", "b", "c">>
N_AB_C == <<"a", "b", ".", "c">>
N_DOTFILE == <<".", "h", "i">>
N_A_B_C == <<"a", ".", "b", ".", "c">>
MaskNames == {F_REPORT, F_A, N_AB, N_ABC, N_AB_C, N_DOTFILE, N_A_B_C}

NextMask ==
    \/ \E n \in MaskNames : Within(MaxEvents) /\ POST_upload_file(PeerA, UA_DESKTOP, <<n>>)
    \/ Within(MaxEvents) /\ GET_api_status(PeerB, UA_DESKTOP)

SpecMask == Init /\ [][NextMask]_vars

\* where the extension of a plain name starts: at its last dot, when a character
\* other than a dot comes before that dot; past the end of the name otherwise
ExtStart(n) ==
    LET dots == {i \in 1..Len(n) : n[i] = "."}
        last == CHOOSE i \in dots : \A j \in dots : j <= i
    IN  IF dots # {} /\ (\E j \in 1..(last - 1) : n[j] # ".") THEN last ELSE Len(n) + 1

\* the first two characters of the base name (all of it when it has at most
\* two), the marker, the extension
ExpectedMask(n) ==
    LET base == Slice(n, 1, ExtStart(n) - 1)
        ext == Slice(n, ExtStart(n), Len(n))
    IN  (IF Len(base) <= 2 THEN base ELSE <<base[1], base[2]>>) \o <<"*", "*", "*">> \o ext

RE_PDF == <<"r", "e", "*", "*", "*", ".", "p", "d", "f">>

\* C17: while the pool is off, PeerB sees every upload event of PeerA with the
\* file name replaced by the first two characters of its base name, "***" and
\* its extension (a base name of at most two characters in full, a name without
\* extension without one); for "report.pdf" the text is "re***.pdf".
C17_MaskedNameShown ==
    \A i \in 1..Len(EVENT_LOG) :
       LET e == EVENT_LOG[i]
           seen == StatusEvents(State, PeerB)[i]
       IN  (~file_pool /\ e.type = "upload" /\ e.ip = PeerA /\ HasFilename(e))
              => /\ seen.msg = MSG_UPLOAD \o ExpectedMask(e.filename[1])
                 /\ e.filename[1] = F_REPORT => seen.msg = MSG_UPLOAD \o RE_PDF

\* PeerB polled a log that holds PeerA's uploads of "report.pdf" and of "a"
C17_Witness ==
    /\ resp.endpoint = "api_status" /\ resp.remote_addr = PeerB /\ resp.status = 200
    /\ \E i, j \in 1..Len(EVENT_LOG) :
          /\ EVENT_LOG[i].type = "upload" /\ EVENT_LOG[i].filename = Some(F_REPORT)
          /\ EVENT_LOG[j].type = "upload" /\ EVENT_LOG[j].filename = Some(F_A)
          /\ StatusEvents(State, PeerB)[i].msg = MSG_UPLOAD \o RE_PDF

----------------------------------------------------------------------------
(* An upload in one thread while another thread serves a status poll *)

\* lines 173-180: the hook of an upload, up to the call of the view function
upload_file_enter(t, ip, ua) ==
    LET req == Request(ip, ua, "upload_file")
    IN  /\ threads[t].pc = "idle"
        /\ IF MaintenanceDenied(State, req)
           THEN /\ Respond(req, 403, "Maintenance Mode", None)
                /\ UNCHANGED <<locked, file_pool, ACTIVE_PEERS, EVENT_LOG, LAST_ONLINE_IPS,
                               files, dirs, now, event_seq, threads>>
           ELSE /\ Commit(Hooked(req))
                /\ SetThread(t, [IdleThread EXCEPT !.pc = "view", !.remote_addr = ip])
                /\ UNCHANGED resp

\* lines 313-333: the view function of the upload
upload_file_view(t, ua, uploaded_files) ==
    /\ threads[t].pc = "view"
    /\ LET req == Request(threads[t].remote_addr, ua, "upload_file")
       IN  \E o \in {upload_file(State, req, uploaded_files)} :
              /\ Commit(o.st)
              /\ Respond(req, o.status, ErrorOf(o.status), o.sent)
    /\ SetThread(t, IdleThread)

NextRaceUpload ==
    \/ Tick(PEER_TIMEOUT + 1)
    \/ Within(MaxEvents) /\ api_status_enter("T1", PeerB, UA_DESKTOP)
    \/ \E t \in Threads : check_peers_lifecycle_scan(t)
    \/ \E t \in Threads : check_peers_lifecycle_remove(t)
    \/ \E t \in Threads : check_peers_lifecycle_diff(t)
    \/ \E t \in Threads : check_peers_lifecycle_join(t)
    \/ \E t \in Threads : check_peers_lifecycle_snapshot(t)
    \/ Within(MaxEvents) /\ upload_file_enter("T2", PeerA, UA_DESKTOP)
    \/ \E t \in Threads : upload_file_view(t, UA_DESKTOP, <<F_A>>)

SpecRaceUpload == Init /\ [][NextRaceUpload]_vars

\* C18: when the view function of a peer's upload returns, its call of
\* record_activity(address, 'upload') has left the address registered with
\* action 'upload' and an expiry of now + 3 s -- whether the address was
\* registered when the call was made or was inserted by it.
C18_ActionSetByEveryCall ==
    [][\A t \in Threads :
          (threads[t].pc = "view" /\ threads'[t].pc = "idle")
             => /\ threads[t].remote_addr \in PeerKeys(ACTIVE_PEERS')
                /\ Peer(ACTIVE_PEERS', threads[t].remote_addr).action = "upload"
                /\ Peer(ACTIVE_PEERS', threads[t].remote_addr).action_time
                      = now' + ACTION_GRACE]_vars

----------------------------------------------------------------------------
(* The registry over time: device class, and the order of join and leave *)

\* C19: a registered address keeps its device class from step to step for as
\* long as it stays registered, whatever client string its requests carry.
C19_DeviceClassSticky ==
    [][\A P \in PeerKeys(ACTIVE_PEERS) \cap PeerKeys(ACTIVE_PEERS') :
          Peer(ACTIVE_PEERS', P).device_type = Peer(ACTIVE_PEERS, P).device_type]_vars

\* the join and leave events of an address in the log, newest first
PresenceEvents(P) ==
    SelectSeq(EVENT_LOG, LAMBDA e : e.ip = P /\ e.type \in {"join", "leave"})

\* C20: for every peer address the join and leave events, oldest first,
\* alternate and start with a join (no event having been evicted from the log).
C20_JoinLeaveAlternate ==
    \A P \in PeerIPs :
       LET h == PresenceEvents(P)
       IN  \A i \in 1..Len(h) :
              h[Len(h) - i + 1].type = (IF i % 2 = 1 THEN "join" ELSE "leave")

====
